---- MODULE Spec2Model ----
(***************************************************************************)
(* PredictionHandler (google/cloud/aiplatform/prediction/handler.py).       *)
(*                                                                         *)
(* One handler object is constructed (__init__, lines 67-85) and then      *)
(* serves prediction requests through the coroutine handle (lines 87-107). *)
(* A handle call has one await (the body read, line 97); everything after  *)
(* it runs without giving the event loop back.                             *)
(*                                                                         *)
(* The predictor, the serializer and the header helper are collaborators   *)
(* whose code is not in handler.py.  Their calls are recorded in the       *)
(* history variables loads and calls, the way an instrumented fake would   *)
(* record them; their return values are free terms (sequences of strings)  *)
(* so that what is passed from one call to the next can be compared.       *)
(***************************************************************************)
EXTENDS Naturals, Sequences, FiniteSets

\* Number of handle calls made against the handler.
MaxRequests == 2

Requests == 1 .. MaxRequests

VARIABLES
    args,        \* the arguments __init__ was called with
    ctor,        \* "notcalled" | "ok" (returned) | "raised"
    ctor_exc,    \* the exception __init__ ended with, "" if none
    instances,   \* number of predictor() instantiations so far
    _predictor,  \* self._predictor: a predictor instance id, 0 while unset
    loads,       \* history of Predictor.load calls
    pc,          \* per request: "idle", a step of handle, "returned", "raised"
    frame,       \* per request: the locals of its handle call
    result,      \* per request: what its handle call ended with
    calls        \* history of the collaborator calls made by handle

vars == <<args, ctor, ctor_exc, instances, _predictor, loads, pc, frame, result, calls>>

-----------------------------------------------------------------------------
(* Inputs *)

\* gcs_artifacts_uri values.
Uris == {"gs://a", "gs://b"}

\* The predictor argument: None, or a Predictor class.
PredictorArgs == {"None", "FakePredictor"}

\* Requests: headers as (name, value) items, and the body the transport delivers.
RequestChoices ==
    { [headers |-> << <<"Content-Type", "application/json">> >>, body |-> "b1"],
      [headers |-> << <<"content-type", "application/json">> >>, body |-> "b2"],
      [headers |-> << >>,                                          body |-> "b1"],
      [headers |-> << <<"Accept", "text/csv">>, <<"Content-Type", "text/csv">> >>, body |-> "b2"],
      [headers |-> << <<"Content-Type", "application/json">> >>, body |-> "malformed"] }

-----------------------------------------------------------------------------
(* Collaborators: handler_utils, DefaultSerializer, Predictor *)

\* str.lower on the header names in use.
Lower(name) ==
    CASE name = "Content-Type" -> "content-type"
      [] name = "Accept"       -> "accept"
      [] OTHER                 -> name

RECURSIVE get_content_type_from_headers(_)
\* Case-insensitive lookup of the content-type header; "None" when absent.
get_content_type_from_headers(headers) ==
    IF headers = << >> THEN "None"
    ELSE IF Lower(Head(headers)[1]) = "content-type" THEN Head(headers)[2]
    ELSE get_content_type_from_headers(Tail(headers))

\* The types the serializer handles; an absent header selects its default.
SupportedTypes == {"application/json", "None"}

\* deserialize raises on an unsupported type or a malformed body.
DeserializeRaises(data, content_type) ==
    content_type \notin SupportedTypes \/ data = "malformed"

deserialize(data, content_type) == <<"loads", data>>

\* serialize raises on an unsupported type.
SerializeRaises(prediction, accept) == accept \notin SupportedTypes

serialize(prediction, accept) == <<"dumps">> \o prediction

preprocess(prediction_input) == <<"preprocess">> \o prediction_input

predict(instances_) == <<"predict">> \o instances_

postprocess(prediction_results) == <<"postprocess">> \o prediction_results

-----------------------------------------------------------------------------
(* Values *)

NoExc == [raisedBy |-> "none", req |-> 0]

NoResult == [kind |-> "none", content |-> << >>, media_type |-> "", exc |-> NoExc]

NoRequest == [headers |-> << >>, body |-> ""]

NewFrame(request) ==
    [request            |-> request,
     request_body       |-> "",
     content_type       |-> "",
     prediction_input   |-> << >>,
     preprocessed       |-> << >>,
     predicted          |-> << >>,
     prediction_results |-> << >>,
     accept             |-> "",
     data               |-> << >>]

-----------------------------------------------------------------------------
(* PredictionHandler.__init__ *)

\* __init__ without the None check of lines 79-82: None() is a TypeError.
init_NoCheck(uri, predictor, loadRaises) ==
    IF predictor = "None"
    THEN [ctor |-> "raised", ctor_exc |-> "TypeError", instances |-> 0,
          _predictor |-> 0, loads |-> << >>]
    ELSE [ctor       |-> IF loadRaises THEN "raised" ELSE "ok",
          ctor_exc   |-> IF loadRaises THEN "LoadError" ELSE "",
          instances  |-> 1,
          _predictor |-> 1,
          loads      |-> << [self |-> 1, uri |-> uri, raised |-> loadRaises] >>]

\* __init__ that instantiates the predictor and leaves out the load of line 85.
init_NoLoad(uri, predictor, loadRaises) ==
    IF predictor = "None"
    THEN [ctor |-> "raised", ctor_exc |-> "ValueError", instances |-> 0,
          _predictor |-> 0, loads |-> << >>]
    ELSE [ctor |-> "ok", ctor_exc |-> "", instances |-> 1, _predictor |-> 1,
          loads |-> << >>]

\* __init__ that catches what load raises and returns normally.
init_SwallowLoadError(uri, predictor, loadRaises) ==
    IF predictor = "None"
    THEN [ctor |-> "raised", ctor_exc |-> "ValueError", instances |-> 0,
          _predictor |-> 0, loads |-> << >>]
    ELSE [ctor |-> "ok", ctor_exc |-> "", instances |-> 1, _predictor |-> 1,
          loads |-> << [self |-> 1, uri |-> uri, raised |-> loadRaises] >>]

\* The state __init__ leaves: uri and predictor are its arguments, loadRaises is
\* whether the predictor's load raises.
PredictionHandler_init(uri, predictor, loadRaises) ==
    IF predictor = "None"
    THEN [ctor |-> "raised", ctor_exc |-> "ValueError", instances |-> 0,
          _predictor |-> 0, loads |-> << >>]
    ELSE [ctor       |-> IF loadRaises THEN "raised" ELSE "ok",
          ctor_exc   |-> IF loadRaises THEN "LoadError" ELSE "",
          instances  |-> 1,
          _predictor |-> 1,
          loads      |-> << [self |-> 1, uri |-> uri, raised |-> loadRaises] >>]

Construct ==
    /\ ctor = "notcalled"
    /\ \E uri \in Uris, predictor \in PredictorArgs, loadRaises \in BOOLEAN :
         \E s \in {PredictionHandler_init(uri, predictor, loadRaises)} :
         /\ args' = [gcs_artifacts_uri |-> uri, predictor |-> predictor]
         /\ ctor' = s.ctor
         /\ ctor_exc' = s.ctor_exc
         /\ instances' = s.instances
         /\ _predictor' = s._predictor
         /\ loads' = s.loads
    /\ UNCHANGED <<pc, frame, result, calls>>

-----------------------------------------------------------------------------
(* PredictionHandler.handle *)

Steps ==
    <<"body", "content_type", "deserialize", "preprocess", "predict",
      "postprocess", "accept", "serialize", "response">>

StepSet == {Steps[i] : i \in 1 .. Len(Steps)}

\* handle with the postprocess call left out.
NextStep_SkipPostprocess(step) ==
    CASE step = "body"         -> "content_type"
      [] step = "content_type" -> "deserialize"
      [] step = "deserialize"  -> "preprocess"
      [] step = "preprocess"   -> "predict"
      [] step = "predict"      -> "accept"
      [] step = "postprocess"  -> "accept"
      [] step = "accept"       -> "serialize"
      [] step = "serialize"    -> "response"
      [] step = "response"     -> "returned"

\* The statement order of handle: what runs after step.
NextStep(step) ==
    CASE step = "body"         -> "content_type"
      [] step = "content_type" -> "deserialize"
      [] step = "deserialize"  -> "preprocess"
      [] step = "preprocess"   -> "predict"
      [] step = "predict"      -> "postprocess"
      [] step = "postprocess"  -> "accept"
      [] step = "accept"       -> "serialize"
      [] step = "serialize"    -> "response"
      [] step = "response"     -> "returned"

\* handle with the predict call awaited as well.
Suspends_AwaitPredict(step) == step \in {"body", "predict"}

\* The steps that are awaited: the coroutine gives the event loop back there.
Suspends(step) == step = "body"

\* handle that makes its predictor calls on an instance of its own.
Callee_Fresh(step, self_predictor) ==
    IF step \in {"preprocess", "predict", "postprocess"} THEN self_predictor + 1 ELSE 0

\* The object a step's call is made on (0: a module-level or static call).
Callee(step, self_predictor) ==
    IF step \in {"preprocess", "predict", "postprocess"} THEN self_predictor ELSE 0

\* handle that passes predict the deserialized input, not what preprocess returned.
CallArg_PredictOnInput(f, step) ==
    CASE step = "body"         -> << >>
      [] step = "content_type" -> << >>
      [] step = "deserialize"  -> <<f.request_body>>
      [] step = "preprocess"   -> f.prediction_input
      [] step = "predict"      -> f.prediction_input
      [] step = "postprocess"  -> f.predicted
      [] step = "accept"       -> << >>
      [] step = "serialize"    -> f.prediction_results
      [] step = "response"     -> f.data

\* The argument expression of a step's call.
CallArg(f, step) ==
    CASE step = "body"         -> << >>
      [] step = "content_type" -> << >>
      [] step = "deserialize"  -> <<f.request_body>>
      [] step = "preprocess"   -> f.prediction_input
      [] step = "predict"      -> f.preprocessed
      [] step = "postprocess"  -> f.predicted
      [] step = "accept"       -> << >>
      [] step = "serialize"    -> f.prediction_results
      [] step = "response"     -> f.data

\* The content type passed to a serializer call, "" for the other calls.
CallType(f, step) ==
    CASE step = "deserialize" -> f.content_type
      [] step = "serialize"   -> f.accept
      [] step = "response"    -> f.accept
      [] OTHER                -> ""

\* What a step's call returns when it does not raise.
CallReturn(f, step) ==
    CASE step = "body"         -> <<f.request.body>>
      [] step = "content_type" -> <<get_content_type_from_headers(f.request.headers)>>
      [] step = "deserialize"  -> deserialize(CallArg(f, step)[1], CallType(f, step))
      [] step = "preprocess"   -> preprocess(CallArg(f, step))
      [] step = "predict"      -> predict(CallArg(f, step))
      [] step = "postprocess"  -> postprocess(CallArg(f, step))
      [] step = "accept"       -> <<get_content_type_from_headers(f.request.headers)>>
      [] step = "serialize"    -> serialize(CallArg(f, step), CallType(f, step))
      [] step = "response"     -> CallArg(f, step)

\* Whether a step's call raises for a reason its arguments decide.
CallRaises(f, step) ==
    CASE step = "deserialize" -> DeserializeRaises(CallArg(f, step)[1], CallType(f, step))
      [] step = "serialize"   -> SerializeRaises(CallArg(f, step), CallType(f, step))
      [] OTHER                -> FALSE

\* The local a step's return value is bound to.
Store(f, step, v) ==
    CASE step = "body"         -> [f EXCEPT !.request_body = v[1]]
      [] step = "content_type" -> [f EXCEPT !.content_type = v[1]]
      [] step = "deserialize"  -> [f EXCEPT !.prediction_input = v]
      [] step = "preprocess"   -> [f EXCEPT !.preprocessed = v]
      [] step = "predict"      -> [f EXCEPT !.predicted = v]
      [] step = "postprocess"  -> [f EXCEPT !.prediction_results = v]
      [] step = "accept"       -> [f EXCEPT !.accept = v[1]]
      [] step = "serialize"    -> [f EXCEPT !.data = v]
      [] step = "response"     -> f

\* handle that catches what a step raises and goes on with the next step.
PcAfterRaise_Continue(step) ==
    CASE step = "body"         -> "content_type"
      [] step = "content_type" -> "deserialize"
      [] step = "deserialize"  -> "preprocess"
      [] step = "preprocess"   -> "predict"
      [] step = "predict"      -> "postprocess"
      [] step = "postprocess"  -> "accept"
      [] step = "accept"       -> "serialize"
      [] step = "serialize"    -> "response"

\* Where handle goes when a step's call raises: there is no try, it ends.
PcAfterRaise(step) == "raised"

\* handle that wraps what a call raised in an exception of its own.
Propagate_Wrap(exc) == [raisedBy |-> "handle", req |-> exc.req]

\* The exception handle ends with when a call raised exc.
Propagate(exc) == exc

\* handle that declares a fixed media type on its response.
MakeResponse_FixedType(f) ==
    [kind |-> "response", content |-> f.data,
     media_type |-> "application/json", exc |-> NoExc]

\* Response(content=data, media_type=accept)
MakeResponse(f) ==
    [kind |-> "response", content |-> CallArg(f, "response"),
     media_type |-> CallType(f, "response"), exc |-> NoExc]

\* One step of request r.  s is the run so far: the frame, the position, the
\* call history, the outcome, and fault, the step (if any) whose collaborator
\* raises for a reason of its own.
ExecStep(r, s) ==
    LET step == s.pc
        exc  == IF s.fault = step \/ CallRaises(s.f, step)
                THEN [raisedBy |-> step, req |-> r] ELSE NoExc
        v    == CallReturn(s.f, step)
        entry == [req |-> r, op |-> step, self |-> Callee(step, _predictor),
                  arg |-> CallArg(s.f, step), ctype |-> CallType(s.f, step),
                  ret |-> IF exc = NoExc THEN v ELSE << >>, exc |-> exc]
    IN  IF step = "response"
        THEN [s EXCEPT !.pc = NextStep(step), !.result = MakeResponse(s.f)]
        ELSE IF exc # NoExc
        THEN [s EXCEPT !.pc = PcAfterRaise(step),
                       !.log = Append(s.log, entry),
                       !.fault = "none",
                       !.result = IF PcAfterRaise(step) = "raised"
                                  THEN [NoResult EXCEPT !.kind = "raise",
                                                        !.exc = Propagate(exc)]
                                  ELSE s.result]
        ELSE [s EXCEPT !.pc = NextStep(step),
                       !.log = Append(s.log, entry),
                       !.f = Store(s.f, step, v)]

RECURSIVE RunSegment(_, _, _)
\* Request r runs from its position until it ends or reaches the next await.
RunSegment(r, s, first) ==
    IF s.pc \in {"returned", "raised"} THEN s
    ELSE IF ~first /\ Suspends(s.pc) THEN s
    ELSE RunSegment(r, ExecStep(r, s), FALSE)

\* The steps whose collaborator may raise for a reason of its own.
FaultChoices ==
    {"none", "body", "content_type", "preprocess", "predict", "postprocess",
     "accept", "serialize"}

\* handler.handle(request) is called: the coroutine runs to its first await.
\* Requests are numbered in the order of their calls.
HandleCall(r) ==
    /\ ctor = "ok"
    /\ pc[r] = "idle"
    /\ \A q \in Requests : q < r => pc[q] # "idle"
    /\ \E request \in RequestChoices :
         frame' = [frame EXCEPT ![r] = NewFrame(request)]
    /\ pc' = [pc EXCEPT ![r] = Steps[1]]
    /\ UNCHANGED <<args, ctor, ctor_exc, instances, _predictor, loads, result, calls>>

\* The awaited operation of request r completes and the coroutine runs on.
Resume(r) ==
    /\ pc[r] \in StepSet
    /\ Suspends(pc[r])
    /\ \E fault \in FaultChoices :
         \E s \in {RunSegment(r, [f |-> frame[r], pc |-> pc[r], log |-> calls,
                                   result |-> result[r], fault |-> fault], TRUE)} :
             /\ pc' = [pc EXCEPT ![r] = s.pc]
             /\ frame' = [frame EXCEPT ![r] = s.f]
             /\ result' = [result EXCEPT ![r] = s.result]
             /\ calls' = s.log
    /\ UNCHANGED <<args, ctor, ctor_exc, instances, _predictor, loads>>

-----------------------------------------------------------------------------

Init ==
    /\ args = [gcs_artifacts_uri |-> "", predictor |-> ""]
    /\ ctor = "notcalled"
    /\ ctor_exc = ""
    /\ instances = 0
    /\ _predictor = 0
    /\ loads = << >>
    /\ pc = [r \in Requests |-> "idle"]
    /\ frame = [r \in Requests |-> NewFrame(NoRequest)]
    /\ result = [r \in Requests |-> NoResult]
    /\ calls = << >>

Next ==
    \/ Construct
    \/ \E r \in Requests : HandleCall(r)
    \/ \E r \in Requests : Resume(r)

Spec == Init /\ [][Next]_vars

-----------------------------------------------------------------------------
(* Properties *)

\* The calls request r's handle made, in order.
CallsOf(r) == SelectSeq(calls, LAMBDA e : e.req = r)

OpsOf(L) == [i \in DOMAIN L |-> L[i].op]

Stages == {"preprocess", "predict", "postprocess"}

\* The content type request r's headers carry.
HeaderType(r) == get_content_type_from_headers(frame[r].request.headers)

\* Request q went through its pipeline before request r did, although r was
\* called first: the two handle calls overlapped.
Overtook(q, r) ==
    /\ r < q
    /\ \E i, j \in DOMAIN calls :
         /\ i < j
         /\ calls[i].req = q /\ calls[i].op = "postprocess"
         /\ calls[j].req = r /\ calls[j].op = "preprocess"

\* C1: constructing with predictor = None ends in ValueError whatever the
\* storage location, with no predictor instance created and no load call.
C1_NonePredictorIsValueError ==
    (ctor # "notcalled" /\ args.predictor = "None") =>
        /\ ctor = "raised"
        /\ ctor_exc = "ValueError"
        /\ instances = 0
        /\ _predictor = 0
        /\ loads = << >>

C1_Witness ==
    /\ ctor = "raised"
    /\ args.predictor = "None"
    /\ args.gcs_artifacts_uri = "gs://b"

\* C2: a construction that succeeded created one predictor instance and called
\* load on it once, with the constructor's storage location; no handle call has
\* started before that load returned, and handle calls add neither a load nor
\* an instance.
C2_OneLoadBeforeAnyHandle ==
    /\ ctor = "ok" =>
        /\ instances = 1
        /\ Len(loads) = 1
        /\ loads[1].self = _predictor
        /\ loads[1].uri = args.gcs_artifacts_uri
        /\ ~loads[1].raised
    /\ \A r \in Requests :
        pc[r] # "idle" => (ctor = "ok" /\ Len(loads) = 1 /\ ~loads[1].raised)

C2_Witness ==
    /\ args.gcs_artifacts_uri = "gs://b"
    /\ Len(loads) = 1
    /\ \A r \in 1 .. 2 : pc[r] \in {"returned", "raised"}
    /\ \E r \in 1 .. 2 : pc[r] = "returned"

\* C3: a handle call that returned called preprocess, predict and postprocess
\* once each, in that order; preprocess got what deserialize returned, predict
\* got what preprocess returned, postprocess got what predict returned, and
\* serialize got what postprocess returned.
C3_PipelineOrderAndChaining ==
    \A r \in Requests :
        pc[r] = "returned" =>
            LET L == CallsOf(r)
                P == SelectSeq(L, LAMBDA e : e.op \in Stages \union {"deserialize", "serialize"})
            IN  /\ OpsOf(P) = <<"deserialize", "preprocess", "predict", "postprocess", "serialize">>
                /\ \A i \in DOMAIN P : P[i].exc = NoExc
                /\ P[2].arg = P[1].ret
                /\ P[3].arg = P[2].ret
                /\ P[4].arg = P[3].ret
                /\ P[5].arg = P[4].ret

C3_Witness ==
    \E r \in Requests :
        /\ pc[r] = "returned"
        /\ \E i \in DOMAIN calls :
             /\ calls[i].req = r
             /\ calls[i].op = "predict"
             /\ calls[i].arg = <<"preprocess", "loads", "b2">>

\* C4: when predict raises, handle ends with that very exception, and neither
\* postprocess nor serialize is called for the request and no response is made.
C4_PredictErrorPropagates ==
    \A r \in Requests :
        \A i \in DOMAIN calls :
            (calls[i].req = r /\ calls[i].op = "predict" /\ calls[i].exc # NoExc) =>
                /\ pc[r] = "raised"
                /\ result[r].kind = "raise"
                /\ result[r].exc = calls[i].exc
                /\ result[r].content = << >>
                /\ \A j \in DOMAIN calls :
                     calls[j].req = r => calls[j].op \notin {"postprocess", "serialize"}

C4_Witness ==
    \E r \in Requests :
        /\ pc[r] = "raised"
        /\ result[r].exc = [raisedBy |-> "predict", req |-> r]

\* C5: with handle calls overlapping in any way, every predictor stage call is
\* made on the instance the constructor created, self._predictor is still that
\* instance, and load has been called once.
C5_SharedPredictorUnderConcurrency ==
    ctor = "ok" =>
        /\ _predictor = 1
        /\ instances = 1
        /\ Len(loads) = 1
        /\ \A i \in DOMAIN calls :
             calls[i].op \in Stages => calls[i].self = loads[1].self

C5_Witness ==
    /\ Overtook(2, 1)
    /\ pc[1] = "returned"
    /\ pc[2] = "returned"

\* C6: a response handle returns declares the content type of the request's
\* headers, and that type is what both header lookups returned and what
\* deserialize and serialize were called with.
C6_MediaTypeIsHeaderType ==
    \A r \in Requests :
        pc[r] = "returned" =>
            LET L == CallsOf(r) IN
            /\ result[r].kind = "response"
            /\ result[r].media_type = HeaderType(r)
            /\ \A i \in DOMAIN L :
                 /\ L[i].op \in {"deserialize", "serialize"} => L[i].ctype = HeaderType(r)
                 /\ L[i].op \in {"content_type", "accept"} => L[i].ret = <<HeaderType(r)>>

C6_Witness ==
    \E r \in Requests :
        /\ pc[r] = "returned"
        /\ frame[r].request.headers = << >>
        /\ result[r].media_type = "None"

\* C7: when load raises, the construction ends with that failure, and no handle
\* call is ever made on a handler whose load did not return.
C7_LoadFailureIsConstructionFailure ==
    /\ (loads # << >> /\ loads[1].raised) =>
        /\ ctor = "raised"
        /\ ctor_exc = "LoadError"
        /\ calls = << >>
        /\ \A r \in Requests : pc[r] = "idle"
    /\ (calls # << >> \/ \E r \in Requests : pc[r] # "idle") =>
        \E i \in DOMAIN loads : ~loads[i].raised

C7_Witness ==
    /\ ctor = "raised"
    /\ ctor_exc = "LoadError"
    /\ loads # << >>
    /\ loads[1].raised

\* C8: a call of handle that raises is the last call of its request: handle
\* ends with the failure and without a response, no step runs twice, the steps
\* made are the first ones of the statement order, and self._predictor is
\* untouched.
C8_FailureEndsTheCall ==
    \A r \in Requests :
        LET L == CallsOf(r) IN
        /\ \A i \in DOMAIN L : L[i].op = Steps[i]
        /\ \A i \in DOMAIN L :
             L[i].exc # NoExc =>
                /\ i = Len(L)
                /\ pc[r] = "raised"
                /\ result[r].kind = "raise"
                /\ result[r].exc.raisedBy = L[i].op
                /\ result[r].content = << >>
        /\ pc[r] = "raised" =>
             /\ L # << >>
             /\ L[Len(L)].exc # NoExc
             /\ _predictor = loads[1].self

C8_Witness ==
    /\ pc[1] = "raised"
    /\ result[1].exc.raisedBy = "deserialize"
    /\ Len(CallsOf(1)) = 3
    /\ pc[2] = "returned"

\* C9: however handle calls overlap, a returned response carries
\* serialize(postprocess(predict(preprocess(deserialize(b, t)))), t) for the
\* body b and the header type t of its own request.
C9_ResponseIsOwnPipeline ==
    \A r \in Requests :
        pc[r] = "returned" =>
            LET b == frame[r].request.body
                t == HeaderType(r)
            IN  result[r].content =
                    serialize(postprocess(predict(preprocess(deserialize(b, t)))), t)

C9_Witness ==
    /\ Overtook(2, 1)
    /\ pc[1] = "returned"
    /\ pc[2] = "returned"
    /\ frame[1].request.body # frame[2].request.body
    /\ result[1].content # result[2].content

\* C10: a handle call is suspended nowhere but at the body read, and the calls
\* of one request are never split by a call of another request.
C10_OnlyBodyReadSuspends ==
    /\ \A r \in Requests : pc[r] \in {"idle", "body", "returned", "raised"}
    /\ \A i, j \in DOMAIN calls :
         (i < j /\ calls[i].req = calls[j].req) => calls[j - 1].req = calls[i].req

C10_Witness ==
    /\ Overtook(2, 1)
    /\ \E i \in DOMAIN calls : calls[i].req = 1 /\ calls[i].op = "postprocess"

====
